---- MODULE Spec2Model ----
(***************************************************************************)
(* Chat server: rooms, memberships, system messages (routes/room_routes.py) *)
(* and the login throttle (auth.py, routes/auth_routes.py).                 *)
(*                                                                         *)
(* The relational store is modelled table by table: every table is a set   *)
(* of rows (records), every row carries its primary key.  A handler is a    *)
(* chain of steps, one per database round trip; the steps are operators     *)
(* over a database value, so that the same definitions give the handler     *)
(* run alone (Spec) and its steps interleaved with another request's        *)
(* (SpecConc).                                                              *)
(***************************************************************************)
EXTENDS Integers, Sequences, FiniteSets, Bags, TLC

\* ---------------------------------------------------------------- bounds
MaxRooms == 2       \* rooms whose rows are modelled one by one
MaxMsgs == 3        \* message rows inserted in a behaviour
MaxAttempts == 2    \* login_attempts rows inserted in a behaviour
ClockSlack == 1     \* the clock shows the seconds 0..ClockSlack, and those a window later

\* ------------------------------------------------------ program constants
MAX_ROOMS_PER_USER == 50     \* room_routes.py:58 (and config.py:14)
MAX_USERS_PER_ROOM == 100    \* models.py:56, Room.max_members default
MAX_LOGIN_ATTEMPTS == 5      \* config.py:18
LOGIN_BLOCK_TIME == 900      \* config.py:19, seconds

Users == {"alice", "bob", "carol"}
RoomIds == 1..MaxRooms
Slots == {1, 2}                      \* requests in flight at the same time (SpecConc)
Passwords == {"", "p1"}              \* "" is the absent / empty password
Creators == {"alice", "bob"}         \* the users who send POST /rooms
Roles == {"member", "admin", "owner"}
IPs == {"1.2.3.4", "5.6.7.8"}
LoginNames == {"alice", "alice@x.com", ""}   \* the submitted username after strip()
LoginPasswords == {"secret1", "wrong"}

VARIABLES
    rooms,        \* table rooms: rows [id, is_private, password_hash, created_by, max_members]
    members,      \* table room_members: rows [id, user_id, room_id, role]
    messages,     \* table messages: rows [id, room_id, user_id, message_type, content, reply_to, is_edited]
    nextMsgId,    \* the next message row's id (ids are fresh, never reused)
    reactions,    \* table message_reactions: rows [id, message_id, user_id, emoji]
    crowd,        \* per room: memberships of users outside Users (role member unless crowdOwner)
    crowdOwner,   \* per room: one of the crowd's memberships has role owner
    extraRooms,   \* per user: rooms with created_by = user beyond the modelled rooms
    req,          \* per slot: the request in flight (its inputs, its position, its locals)
    last,         \* the response sent last: [op, status, body, room]
    users,        \* table users: rows [username, email, password_hash, is_online, last_seen]
    login_attempts,   \* table login_attempts: rows [id, ip_address, username, attempted_at, successful]
    now           \* datetime.utcnow(), in seconds

roomVars == <<rooms, members, messages, nextMsgId, reactions, crowd, crowdOwner, extraRooms, req>>
loginVars == <<users, login_attempts, now>>
vars == <<roomVars, last, loginVars>>

\* The database as one value, handed to the handlers' steps.  held: the
\* membership row ids that requests in flight still refer to.
DB ==
    [rooms |-> rooms, members |-> members, messages |-> messages,
     nextMsgId |-> nextMsgId, reactions |-> reactions,
     crowd |-> crowd, crowdOwner |-> crowdOwner,
     extraRooms |-> extraRooms,
     held |-> {req[s].row : s \in Slots} \cup {req[s].pick : s \in Slots}]

\* ------------------------------------------------------------ models.py
NoHash == <<>>                                  \* password_hash IS NULL
generate_password_hash(password) == <<"bcrypt", password>>
check_password_hash(hash, password) == hash = generate_password_hash(password)

\* Room.set_password: the password_hash the room gets
set_password(password) ==
    IF password /= "" THEN generate_password_hash(password) ELSE NoHash

\* variant of Room.check_password: a room without a password accepts none
check_password_requires_hash(room, password) ==
    room.password_hash /= NoHash /\ check_password_hash(room.password_hash, password)

\* Room.check_password
check_password(room, password) ==
    IF room.password_hash = NoHash THEN TRUE
    ELSE check_password_hash(room.password_hash, password)

\* uuid4 primary keys: a membership row's id is fresh, i.e. differs from
\* every row's id and from every id a request in flight still holds.
generate_uuid(db) ==
    LET used == {m.id : m \in db.members} \cup db.held
    IN  CHOOSE i \in 1..(Cardinality(used) + 1) :
            i \notin used /\ \A j \in 1..(i - 1) : j \in used

NoRow == 0          \* no membership row (None)
CrowdRow == -1      \* a membership row of the crowd

\* ---------------------------------------------------------------- queries
RoomGet(db, room_id) == {r \in db.rooms : r.id = room_id}
Membership(db, user_id, room_id) ==
    {m \in db.members : m.user_id = user_id /\ m.room_id = room_id}
RoomMembers(db, room_id) == {m \in db.members : m.room_id = room_id}
MemberCount(db, room_id) ==
    Cardinality(RoomMembers(db, room_id)) + db.crowd[room_id]
\* variant of OtherMembers: the requester's own row is not filtered out
OtherMembers_with_self(db, user_id, room_id) ==
    {m \in db.members : m.room_id = room_id}

OtherMembers(db, user_id, room_id) ==
    {m \in db.members : m.room_id = room_id /\ m.user_id /= user_id}
OtherCount(db, user_id, room_id) ==
    Cardinality(OtherMembers(db, user_id, room_id)) + db.crowd[room_id]
RoomsCreatedBy(db, user_id) ==
    Cardinality({r \in db.rooms : r.created_by = user_id}) + db.extraRooms[user_id]

\* ----------------------------------------------------- requests, responses
Idle ==
    [pc |-> "idle", op |-> "", user |-> "", room |-> 0, password |-> "",
     name |-> "", is_private |-> FALSE, row |-> NoRow, role |-> "",
     pick |-> NoRow, pickRole |-> ""]

NoResponse == [op |-> "", status |-> 0, body |-> "", room |-> 0]

\* a step's outcome: the handler returns (pc = "done") or goes on to pc
Reply(db, rq, status, body) ==
    [db |-> db, rq |-> [rq EXCEPT !.pc = "done"], status |-> status, body |-> body]
Goto(db, rq, pc) ==
    [db |-> db, rq |-> [rq EXCEPT !.pc = pc], status |-> 0, body |-> ""]

SystemMessage(room_id, user_id, kind, who, id) ==
    [id |-> id, room_id |-> room_id, user_id |-> user_id,
     message_type |-> "system", content |-> <<kind, who>>,
     reply_to |-> 0, is_edited |-> FALSE]

\* ------------------------------------------------------------ create_room
\* lines 48-59: validation and the quota check (one count query)
create_room_check(db, rq) ==
    IF rq.name = "" THEN Reply(db, rq, 400, "Room name is required")
    ELSE IF RoomsCreatedBy(db, rq.user) >= MAX_ROOMS_PER_USER
         THEN Reply(db, rq, 400, "Room limit reached")
    ELSE Goto(db, rq, "create_commit")

\* variant of create_room_commit: the creator's membership keeps the
\* column's default role
create_room_commit_default_role(db, rq) ==
    LET room_id == Cardinality(db.rooms) + 1
        room == [id |-> room_id, is_private |-> rq.is_private,
                 password_hash |-> set_password(rq.password),
                 created_by |-> rq.user, max_members |-> MAX_USERS_PER_ROOM]
        membership == [id |-> generate_uuid(db), user_id |-> rq.user,
                       room_id |-> room_id, role |-> "member"]
        system_message ==
            SystemMessage(room_id, rq.user, "created", rq.user, db.nextMsgId)
    IN  Reply([db EXCEPT !.rooms = @ \cup {room},
                         !.members = @ \cup {membership},
                         !.messages = @ \cup {system_message},
                         !.nextMsgId = @ + 1],
              [rq EXCEPT !.room = room_id], 201, "Room created successfully")

\* lines 61-98: room, owner membership and system message in one transaction
create_room_commit(db, rq) ==
    LET room_id == Cardinality(db.rooms) + 1
        room == [id |-> room_id, is_private |-> rq.is_private,
                 password_hash |-> set_password(rq.password),
                 created_by |-> rq.user, max_members |-> MAX_USERS_PER_ROOM]
        membership == [id |-> generate_uuid(db), user_id |-> rq.user,
                       room_id |-> room_id, role |-> "owner"]
        system_message ==
            SystemMessage(room_id, rq.user, "created", rq.user, db.nextMsgId)
    IN  Reply([db EXCEPT !.rooms = @ \cup {room},
                         !.members = @ \cup {membership},
                         !.messages = @ \cup {system_message},
                         !.nextMsgId = @ + 1],
              [rq EXCEPT !.room = room_id], 201, "Room created successfully")

create_room(db, rq) ==
    LET a == create_room_check(db, rq)
    IN  IF a.rq.pc = "done" THEN a ELSE create_room_commit(a.db, a.rq)

\* -------------------------------------------------------------- join_room
\* variant of join_room_lookup: the password is checked before the existing
\* membership is looked up
join_room_lookup_password_first(db, rq) ==
    IF RoomGet(db, rq.room) = {} THEN Reply(db, rq, 404, "Room not found")
    ELSE LET room == CHOOSE r \in RoomGet(db, rq.room) : TRUE
         IN  IF (room.is_private \/ room.password_hash /= NoHash)
                      /\ ~check_password(room, rq.password)
                 THEN Reply(db, rq, 401, "Invalid password")
             ELSE IF Membership(db, rq.user, rq.room) /= {}
                 THEN Reply(db, rq, 200, "Already a member")
             ELSE Goto(db, rq, "join_count")

\* lines 162-184: the room, the existing membership, the password
join_room_lookup(db, rq) ==
    IF RoomGet(db, rq.room) = {} THEN Reply(db, rq, 404, "Room not found")
    ELSE LET room == CHOOSE r \in RoomGet(db, rq.room) : TRUE
         IN  IF Membership(db, rq.user, rq.room) /= {}
                 THEN Reply(db, rq, 200, "Already a member")
             ELSE IF (room.is_private \/ room.password_hash /= NoHash)
                      /\ ~check_password(room, rq.password)
                 THEN Reply(db, rq, 401, "Invalid password")
             ELSE Goto(db, rq, "join_count")

\* lines 186-189: the member limit (one count query)
join_room_count(db, rq) ==
    LET room == CHOOSE r \in RoomGet(db, rq.room) : TRUE
    IN  IF MemberCount(db, rq.room) >= room.max_members
            THEN Reply(db, rq, 400, "Room is full")
        ELSE Goto(db, rq, "join_commit")

\* variant of unique_membership: the table has no unique constraint
unique_membership_dropped(db, user_id, room_id) == TRUE

\* models.py:95, unique_membership: the insert fails when a row with the
\* same (user_id, room_id) is there
unique_membership(db, user_id, room_id) ==
    Membership(db, user_id, room_id) = {}

\* variant of join_room_commit: the membership is inserted as create_room
\* inserts the creator's
join_room_commit_owner_role(db, rq) ==
    LET membership == [id |-> generate_uuid(db), user_id |-> rq.user,
                       room_id |-> rq.room, role |-> "owner"]
        system_message ==
            SystemMessage(rq.room, rq.user, "joined", rq.user, db.nextMsgId)
    IN  IF ~unique_membership(db, rq.user, rq.room)
            THEN Reply(db, rq, 500, "Server error during room join")
        ELSE Reply([db EXCEPT !.members = @ \cup {membership},
                              !.messages = @ \cup {system_message},
                              !.nextMsgId = @ + 1],
                   rq, 200, "Joined room successfully")

\* lines 191-221: membership and system message in one transaction; an
\* IntegrityError rolls the transaction back (lines 218-221)
join_room_commit(db, rq) ==
    LET membership == [id |-> generate_uuid(db), user_id |-> rq.user,
                       room_id |-> rq.room, role |-> "member"]
        system_message ==
            SystemMessage(rq.room, rq.user, "joined", rq.user, db.nextMsgId)
    IN  IF ~unique_membership(db, rq.user, rq.room)
            THEN Reply(db, rq, 500, "Server error during room join")
        ELSE Reply([db EXCEPT !.members = @ \cup {membership},
                              !.messages = @ \cup {system_message},
                              !.nextMsgId = @ + 1],
                   rq, 200, "Joined room successfully")

join_room(db, rq) ==
    LET a == join_room_lookup(db, rq)
    IN  IF a.rq.pc = "done" THEN a
        ELSE LET b == join_room_count(a.db, a.rq)
             IN  IF b.rq.pc = "done" THEN b ELSE join_room_commit(b.db, b.rq)

\* ------------------------------------------------------------- leave_room
\* variant of leave_room_lookup: the role is not looked at
leave_room_lookup_any_role(db, rq) ==
    IF Membership(db, rq.user, rq.room) = {}
        THEN Reply(db, rq, 404, "Not a member of this room")
    ELSE LET membership == CHOOSE m \in Membership(db, rq.user, rq.room) : TRUE
             seen == [rq EXCEPT !.row = membership.id, !.role = membership.role]
         IN  Goto(db, seen, "leave_count")

\* lines 270-279: the requester's membership row and the role it shows
leave_room_lookup(db, rq) ==
    IF Membership(db, rq.user, rq.room) = {}
        THEN Reply(db, rq, 404, "Not a member of this room")
    ELSE LET membership == CHOOSE m \in Membership(db, rq.user, rq.room) : TRUE
             seen == [rq EXCEPT !.row = membership.id, !.role = membership.role]
         IN  IF membership.role = "owner" THEN Goto(db, seen, "leave_count")
             ELSE Goto(db, seen, "leave_commit")

\* lines 280-285: are there other members (one count query)
leave_room_count(db, rq) ==
    IF OtherCount(db, rq.user, rq.room) > 0 THEN Goto(db, rq, "leave_pick")
    ELSE Goto(db, rq, "leave_commit")

\* the rows the unordered query of lines 287-290 may return first
FirstOther(db, rq) ==
    LET rows == {m.id : m \in OtherMembers(db, rq.user, rq.room)}
                    \cup (IF db.crowd[rq.room] > 0 THEN {CrowdRow} ELSE {})
    IN  IF rows = {} THEN {NoRow} ELSE rows

RoleOfRow(db, room_id, row) ==
    IF row = CrowdRow THEN (IF db.crowdOwner[room_id] THEN "owner" ELSE "member")
    ELSE (CHOOSE m \in db.members : m.id = row).role

\* lines 287-301: new_owner, the row the query returned (first)
leave_room_pick(db, rq, first) ==
    IF first = NoRow THEN Goto(db, rq, "leave_commit")
    ELSE Goto(db, [rq EXCEPT !.pick = first,
                             !.pickRole = RoleOfRow(db, rq.room, first)],
              "leave_commit")

\* variant of leave_room_commit: no rollback after the failed UPDATE, the
\* statements that went through stay
leave_room_commit_no_rollback(db, rq) ==
    LET transfer == rq.pick /= NoRow
        update == transfer /\ rq.pickRole /= "owner"
        stale == update /\ rq.pick /= CrowdRow
                     /\ rq.pick \notin {m.id : m \in db.members}
        who == IF rq.pick = CrowdRow THEN "crowd"
               ELSE IF \E m \in db.members : m.id = rq.pick
                    THEN (CHOOSE m \in db.members : m.id = rq.pick).user_id
               ELSE "gone"
        owner_message ==
            SystemMessage(rq.room, rq.user, "newowner", who, db.nextMsgId)
        left_message ==
            SystemMessage(rq.room, rq.user, "left", rq.user,
                          IF transfer THEN db.nextMsgId + 1 ELSE db.nextMsgId)
        updated == {IF update /\ m.id = rq.pick THEN [m EXCEPT !.role = "owner"] ELSE m
                        : m \in db.members}
        after == [db EXCEPT
                       !.members = {m \in updated : m.id /= rq.row},
                       !.crowdOwner = IF update /\ rq.pick = CrowdRow
                                      THEN [@ EXCEPT ![rq.room] = TRUE] ELSE @,
                       !.messages = @ \cup {left_message}
                                      \cup (IF transfer THEN {owner_message} ELSE {}),
                       !.nextMsgId = IF transfer THEN @ + 2 ELSE @ + 1]
    IN  IF stale THEN Reply(after, rq, 500, "Server error during room leave")
        ELSE Reply(after, rq, 200, "Left room successfully")

\* the flush of line 314.  An UPDATE of a row that is gone raises
\* StaleDataError (rolled back, lines 320-323); an unchanged attribute emits
\* no UPDATE; a DELETE of a row that is gone only warns.
leave_room_commit(db, rq) ==
    LET transfer == rq.pick /= NoRow
        update == transfer /\ rq.pickRole /= "owner"
        stale == update /\ rq.pick /= CrowdRow
                     /\ rq.pick \notin {m.id : m \in db.members}
        who == IF rq.pick = CrowdRow THEN "crowd"
               ELSE IF \E m \in db.members : m.id = rq.pick
                    THEN (CHOOSE m \in db.members : m.id = rq.pick).user_id
               ELSE "gone"
        owner_message ==
            SystemMessage(rq.room, rq.user, "newowner", who, db.nextMsgId)
        left_message ==
            SystemMessage(rq.room, rq.user, "left", rq.user,
                          IF transfer THEN db.nextMsgId + 1 ELSE db.nextMsgId)
        updated == {IF update /\ m.id = rq.pick THEN [m EXCEPT !.role = "owner"] ELSE m
                        : m \in db.members}
    IN  IF stale THEN Reply(db, rq, 500, "Server error during room leave")
        ELSE Reply([db EXCEPT
                       !.members = {m \in updated : m.id /= rq.row},
                       !.crowdOwner = IF update /\ rq.pick = CrowdRow
                                      THEN [@ EXCEPT ![rq.room] = TRUE] ELSE @,
                       !.messages = @ \cup {left_message}
                                      \cup (IF transfer THEN {owner_message} ELSE {}),
                       !.nextMsgId = IF transfer THEN @ + 2 ELSE @ + 1],
                   rq, 200, "Left room successfully")

leave_room(db, rq, first) ==
    LET a == leave_room_lookup(db, rq)
    IN  IF a.rq.pc = "done" THEN a
        ELSE IF a.rq.pc = "leave_commit" THEN leave_room_commit(a.db, a.rq)
        ELSE LET b == leave_room_count(a.db, a.rq)
             IN  IF b.rq.pc = "leave_commit" THEN leave_room_commit(b.db, b.rq)
                 ELSE LET c == leave_room_pick(b.db, b.rq, first)
                      IN  leave_room_commit(c.db, c.rq)

\* ------------------------------------------------------- message_routes.py
\* auth.py:14-16: the identity a token carries is user.id, a str
get_jwt_identity(user_id) == [type |-> "str", value |-> user_id]

\* current_user.id: a User has the attribute, a str raises AttributeError
hasattr_id(current_user) == current_user.type = "User"

NoMessage == 0      \* reply_to is None

\* a handler's outcome: the store, the status and the message of the response
Answer(db, status, body) == [db |-> db, status |-> status, body |-> body]

MessageGet(db, message_id) == {m \in db.messages : m.id = message_id}

\* POST /rooms/<room_id>/messages; an exception (lines 113-115) rolls back
send_message(db, user_id, room_id, data, content, file_url, reply_to) ==
    LET current_user == get_jwt_identity(user_id)
        message == [id |-> db.nextMsgId, room_id |-> room_id,
                    user_id |-> current_user.value, message_type |-> "text",
                    content |-> content, reply_to |-> reply_to, is_edited |-> FALSE]
    IN  IF ~data THEN Answer(db, 400, "No JSON data provided")
        ELSE IF ~hasattr_id(current_user)
            THEN Answer(db, 500, "Server error during message sending")
        ELSE IF Membership(db, current_user.value, room_id) = {}
            THEN Answer(db, 403, "Not a member of this room")
        ELSE IF content = "" /\ file_url = ""
            THEN Answer(db, 400, "Message content or file is required")
        ELSE IF reply_to /= NoMessage
                    /\ \A parent_message \in MessageGet(db, reply_to) :
                           parent_message.room_id /= room_id
            THEN Answer(db, 400, "Invalid reply message")
        ELSE Answer([db EXCEPT !.messages = @ \cup {message}, !.nextMsgId = @ + 1],
                    201, "Message sent successfully")

\* PUT /messages/<message_id>
edit_message(db, user_id, message_id, data, content) ==
    LET current_user == get_jwt_identity(user_id)
    IN  IF ~data THEN Answer(db, 400, "No JSON data provided")
        ELSE IF MessageGet(db, message_id) = {} THEN Answer(db, 404, "Message not found")
        ELSE IF ~hasattr_id(current_user)
            THEN Answer(db, 500, "Server error during message edit")
        ELSE LET message == CHOOSE m \in MessageGet(db, message_id) : TRUE
             IN  IF message.user_id /= current_user.value
                     THEN Answer(db, 403, "Can only edit your own messages")
                 ELSE IF content = ""
                     THEN Answer(db, 400, "Message content is required")
                 ELSE Answer([db EXCEPT !.messages = (@ \ {message}) \cup
                                 {[message EXCEPT !.content = content, !.is_edited = TRUE]}],
                             200, "Message updated successfully")

\* Message.replies, cascade='all, delete-orphan' (models.py:111): the rows
\* that go with the rows ids, found in at most n rounds
RECURSIVE Cascade(_, _, _)
Cascade(db, ids, n) ==
    LET more == ids \cup {m.id : m \in {x \in db.messages : x.reply_to \in ids}}
    IN  IF n = 0 \/ more = ids THEN ids ELSE Cascade(db, more, n - 1)

\* DELETE /messages/<message_id>
delete_message(db, user_id, message_id) ==
    LET current_user == get_jwt_identity(user_id)
    IN  IF MessageGet(db, message_id) = {} THEN Answer(db, 404, "Message not found")
        ELSE IF ~hasattr_id(current_user)
            THEN Answer(db, 500, "Server error during message deletion")
        ELSE LET message == CHOOSE m \in MessageGet(db, message_id) : TRUE
                 membership == Membership(db, current_user.value, message.room_id)
                 can_delete == \/ message.user_id = current_user.value
                               \/ \E m \in membership : m.role \in {"admin", "owner"}
                 gone == Cascade(db, {message_id}, Cardinality(db.messages))
             IN  IF ~can_delete
                     THEN Answer(db, 403, "Insufficient permissions to delete message")
                 ELSE Answer([db EXCEPT
                                 !.reactions = {r \in @ : r.message_id /= message_id},
                                 !.messages = {m \in @ : m.id \notin gone}],
                             200, "Message deleted successfully")

\* models.py:136, unique_reaction
unique_reaction(db, message_id, user_id, emoji) ==
    ~\E r \in db.reactions :
        r.message_id = message_id /\ r.user_id = user_id /\ r.emoji = emoji

\* POST /messages/<message_id>/reactions
add_reaction(db, user_id, message_id, data, emoji) ==
    LET current_user == get_jwt_identity(user_id)
        reaction == [id |-> Cardinality(db.reactions) + 1, message_id |-> message_id,
                     user_id |-> current_user.value, emoji |-> emoji]
    IN  IF ~data THEN Answer(db, 400, "No JSON data provided")
        ELSE IF emoji = "" THEN Answer(db, 400, "Emoji is required")
        ELSE IF MessageGet(db, message_id) = {} THEN Answer(db, 404, "Message not found")
        ELSE IF ~hasattr_id(current_user)
            THEN Answer(db, 500, "Server error during reaction addition")
        ELSE LET message == CHOOSE m \in MessageGet(db, message_id) : TRUE
             IN  IF Membership(db, current_user.value, message.room_id) = {}
                     THEN Answer(db, 403, "Not a member of this room")
                 ELSE IF ~unique_reaction(db, message_id, current_user.value, emoji)
                     THEN Answer(db, 409, "Reaction already exists")
                 ELSE Answer([db EXCEPT !.reactions = @ \cup {reaction}],
                             200, "Reaction added successfully")

\* ------------------------------------- enter_room, check_membership (reads)
\* variant of enter_room: the membership is not looked up
enter_room_open(db, user_id, room_id) ==
    IF RoomGet(db, room_id) = {} THEN Answer(db, 404, "Room not found")
    ELSE Answer(db, 200, "Entered room successfully")

\* POST /rooms/<room_id>/enter
enter_room(db, user_id, room_id) ==
    IF RoomGet(db, room_id) = {} THEN Answer(db, 404, "Room not found")
    ELSE IF Membership(db, user_id, room_id) = {}
        THEN Answer(db, 403, "Not a member of this room")
    ELSE Answer(db, 200, "Entered room successfully")

\* GET /rooms/<room_id>/membership: the body is the role, "None" without a row
check_membership(db, user_id, room_id) ==
    LET membership == Membership(db, user_id, room_id)
    IN  Answer(db, 200, IF membership = {} THEN "None"
                        ELSE (CHOOSE m \in membership : TRUE).role)

\* GET /rooms/<room_id>/messages: current_user.id is read first (line 17)
get_messages(db, user_id, room_id) ==
    LET current_user == get_jwt_identity(user_id)
    IN  IF ~hasattr_id(current_user) THEN Answer(db, 500, "Server error")
        ELSE IF Membership(db, current_user.value, room_id) = {}
            THEN Answer(db, 403, "Not a member of this room")
        ELSE Answer(db, 200, "messages")

\* DELETE /messages/<message_id>/reactions
remove_reaction(db, user_id, message_id, data, emoji) ==
    LET current_user == get_jwt_identity(user_id)
    IN  IF ~data THEN Answer(db, 400, "No JSON data provided")
        ELSE IF emoji = "" THEN Answer(db, 400, "Emoji is required")
        ELSE IF ~hasattr_id(current_user)
            THEN Answer(db, 500, "Server error during reaction removal")
        ELSE IF unique_reaction(db, message_id, current_user.value, emoji)
            THEN Answer(db, 404, "Reaction not found")
        ELSE LET reaction == CHOOSE r \in db.reactions :
                                 /\ r.message_id = message_id
                                 /\ r.user_id = current_user.value
                                 /\ r.emoji = emoji
             IN  Answer([db EXCEPT !.reactions = @ \ {reaction}],
                        200, "Reaction removed successfully")

\* ------------------------------------------------ get_rooms, get_room (reads)
\* a response that carries data besides its status and message
Listing(db, status, body, rows, is_member) ==
    [db |-> db, status |-> status, body |-> body, rows |-> rows, is_member |-> is_member]

\* variant of get_rooms: the two lists are concatenated without set()
get_rooms_concatenated(db, user_id) ==
    LET public_rooms == SetToBag({room \in db.rooms : ~room.is_private})
        user_memberships == {m \in db.members : m.user_id = user_id}
        user_room_ids == {membership.room_id : membership \in user_memberships}
        user_rooms == SetToBag({room \in db.rooms : room.id \in user_room_ids})
        all_rooms == public_rooms (+) user_rooms
    IN  Listing(db, 200, "rooms", all_rooms, FALSE)

\* GET /rooms: the lists are bags of room rows (the rooms numbered in RoomIds)
get_rooms(db, user_id) ==
    LET public_rooms == SetToBag({room \in db.rooms : ~room.is_private})
        user_memberships == {m \in db.members : m.user_id = user_id}
        user_room_ids == {membership.room_id : membership \in user_memberships}
        user_rooms == SetToBag({room \in db.rooms : room.id \in user_room_ids})
        all_rooms == SetToBag(BagToSet(public_rooms (+) user_rooms))
    IN  Listing(db, 200, "rooms", all_rooms, FALSE)

\* room_data['members']: one entry per RoomMember row of the room, the rows
\* of users outside Users under the name "crowd"
MemberEntries(db, room_id) ==
    LET rows == RoomMembers(db, room_id)
        owners == IF db.crowdOwner[room_id] THEN 1 ELSE 0
        entry(m) == [user |-> m.user_id, role |-> m.role]
        crowd_member == [user |-> "crowd", role |-> "member"]
        crowd_owner == [user |-> "crowd", role |-> "owner"]
        entries == {entry(m) : m \in rows}
                     \cup (IF db.crowd[room_id] > owners THEN {crowd_member} ELSE {})
                     \cup (IF owners > 0 THEN {crowd_owner} ELSE {})
    IN  [e \in entries |->
            IF e = crowd_member THEN db.crowd[room_id] - owners
            ELSE IF e = crowd_owner THEN owners
            ELSE Cardinality({m \in rows : entry(m) = e})]

\* variant of get_room: a private room is shown to everyone
get_room_no_privacy(db, user_id, room_id) ==
    IF RoomGet(db, room_id) = {} THEN Listing(db, 404, "Room not found", EmptyBag, FALSE)
    ELSE LET membership == Membership(db, user_id, room_id)
         IN  Listing(db, 200, "room", MemberEntries(db, room_id), membership /= {})

\* GET /rooms/<room_id>
get_room(db, user_id, room_id) ==
    IF RoomGet(db, room_id) = {} THEN Listing(db, 404, "Room not found", EmptyBag, FALSE)
    ELSE LET room == CHOOSE r \in RoomGet(db, room_id) : TRUE
             membership == Membership(db, user_id, room_id)
         IN  IF room.is_private /\ membership = {}
                 THEN Listing(db, 403, "Access denied", EmptyBag, FALSE)
             ELSE Listing(db, 200, "room", MemberEntries(db, room_id), membership /= {})

\* ---------------------------------------------------------------- auth.py
\* variant of check_login_attempts: blocks one failure later
check_login_attempts_one_more(attempts, clock, ip_address, username) ==
    LET time_threshold == clock - LOGIN_BLOCK_TIME
        recent_attempts ==
            Cardinality({a \in attempts :
                /\ a.ip_address = ip_address
                /\ a.username = username
                /\ a.attempted_at >= time_threshold
                /\ a.successful = FALSE})
    IN  recent_attempts <= MAX_LOGIN_ATTEMPTS

\* variant of check_login_attempts: the failures of every ip are counted
check_login_attempts_any_ip(attempts, clock, ip_address, username) ==
    LET time_threshold == clock - LOGIN_BLOCK_TIME
        recent_attempts ==
            Cardinality({a \in attempts :
                /\ a.username = username
                /\ a.attempted_at >= time_threshold
                /\ a.successful = FALSE})
    IN  recent_attempts < MAX_LOGIN_ATTEMPTS

\* variant of check_login_attempts: a successful attempt of the pair clears
\* the failures recorded up to it
check_login_attempts_reset_on_success(attempts, clock, ip_address, username) ==
    LET time_threshold == clock - LOGIN_BLOCK_TIME
        recent_attempts ==
            Cardinality({a \in attempts :
                /\ a.ip_address = ip_address
                /\ a.username = username
                /\ a.attempted_at >= time_threshold
                /\ a.successful = FALSE
                /\ ~\E s \in attempts :
                       /\ s.ip_address = ip_address /\ s.username = username
                       /\ s.successful /\ s.attempted_at >= a.attempted_at})
    IN  recent_attempts < MAX_LOGIN_ATTEMPTS

\* check_login_attempts: fewer than MAX_LOGIN_ATTEMPTS failed attempts of
\* this (ip, username) at or after now - LOGIN_BLOCK_TIME
check_login_attempts(attempts, clock, ip_address, username) ==
    LET time_threshold == clock - LOGIN_BLOCK_TIME
        recent_attempts ==
            Cardinality({a \in attempts :
                /\ a.ip_address = ip_address
                /\ a.username = username
                /\ a.attempted_at >= time_threshold
                /\ a.successful = FALSE})
    IN  recent_attempts < MAX_LOGIN_ATTEMPTS

\* record_login_attempt: one more row, stamped with the clock
record_login_attempt(attempts, clock, ip_address, username, successful) ==
    attempts \cup
        {[id |-> Cardinality({a \in attempts : a.id >= 1}) + 1,
          ip_address |-> ip_address, username |-> username,
          attempted_at |-> clock, successful |-> successful]}

\* User.check_password
user_check_password(user, password) ==
    check_password_hash(user.password_hash, password)

\* variant of login: a blocked call is recorded as a failed attempt
login_records_blocked(accounts, attempts, clock, ip_address, username, password) ==
    LET found == {u \in accounts : u.username = username \/ u.email = username}
        Out(us, as, status, body) ==
            [users |-> us, attempts |-> as, status |-> status, body |-> body]
    IN  IF username = "" \/ password = ""
            THEN Out(accounts, attempts, 400, "Username and password are required")
        ELSE IF ~check_login_attempts(attempts, clock, ip_address, username)
            THEN Out(accounts,
                     record_login_attempt(attempts, clock, ip_address, username, FALSE),
                     429, "Too many login attempts")
        ELSE IF \E u \in found : user_check_password(u, password)
            THEN LET user == CHOOSE u \in found : TRUE
                 IN  Out((accounts \ {user}) \cup
                             {[user EXCEPT !.is_online = TRUE, !.last_seen = clock]},
                         record_login_attempt(attempts, clock, ip_address, username, TRUE),
                         200, "Login successful")
        ELSE Out(accounts,
                 record_login_attempt(attempts, clock, ip_address, username, FALSE),
                 401, "Invalid username or password")

\* ---------------------------------------------------- auth_routes.py, login
\* lines 70-110: the outcome [users, attempts, status, body]
login(accounts, attempts, clock, ip_address, username, password) ==
    LET found == {u \in accounts : u.username = username \/ u.email = username}
        Out(us, as, status, body) ==
            [users |-> us, attempts |-> as, status |-> status, body |-> body]
    IN  IF username = "" \/ password = ""
            THEN Out(accounts, attempts, 400, "Username and password are required")
        ELSE IF ~check_login_attempts(attempts, clock, ip_address, username)
            THEN Out(accounts, attempts, 429, "Too many login attempts")
        ELSE IF \E u \in found : user_check_password(u, password)
            THEN LET user == CHOOSE u \in found : TRUE
                 IN  Out((accounts \ {user}) \cup
                             {[user EXCEPT !.is_online = TRUE, !.last_seen = clock]},
                         record_login_attempt(attempts, clock, ip_address, username, TRUE),
                         200, "Login successful")
        ELSE Out(accounts,
                 record_login_attempt(attempts, clock, ip_address, username, FALSE),
                 401, "Invalid username or password")

\* ------------------------------------------------------------------ Init
\* the account of the scenario: alice / alice@x.com / secret1
Alice ==
    [username |-> "alice", email |-> "alice@x.com",
     password_hash |-> generate_password_hash("secret1"),
     is_online |-> FALSE, last_seen |-> 0]

\* failed logins of (1.2.3.4, alice) recorded at second 0
FailedBefore(k) ==
    {[id |-> i - k, ip_address |-> "1.2.3.4", username |-> "alice",
      attempted_at |-> 0, successful |-> FALSE] : i \in 1..k}

\* Rows that exist when a behaviour starts have ids <= 0; the rows a
\* behaviour inserts are numbered from 1.
InitCommon ==
    /\ req = [s \in Slots |-> Idle]
    /\ last = NoResponse
    /\ crowdOwner = [r \in RoomIds |-> FALSE]
    /\ reactions = {}
    /\ nextMsgId = 1
    /\ users = {Alice}
    /\ now = 0

\* an empty store; alice may already have created rooms that are not modelled
InitEmpty ==
    /\ rooms = {} /\ members = {} /\ messages = {}
    /\ crowd = [r \in RoomIds |-> 0]
    /\ \E q \in {0, MAX_ROOMS_PER_USER - 1} :
           extraRooms = [u \in Users |-> IF u = "alice" THEN q ELSE 0]

\* room 1 as create_room leaves it (public, no password, alice its owner),
\* joined since by users outside Users: one place is left
Room1 ==
    [id |-> 1, is_private |-> FALSE, password_hash |-> NoHash,
     created_by |-> "alice", max_members |-> MAX_USERS_PER_ROOM]

InitCrowded ==
    /\ rooms = {Room1}
    /\ members = {[id |-> 1, user_id |-> "alice", room_id |-> 1, role |-> "owner"]}
    /\ messages = {SystemMessage(1, "alice", "created", "alice", 0)}
    /\ crowd = [r \in RoomIds |-> IF r = 1 THEN MAX_USERS_PER_ROOM - 2 ELSE 0]
    /\ extraRooms = [u \in Users |-> 0]

\* alice starts one room short of her quota, or in her crowded room
Init ==
    /\ InitCommon /\ login_attempts = {}
    /\ \/ InitEmpty /\ extraRooms["alice"] = MAX_ROOMS_PER_USER - 1
       \/ InitCrowded

\* --------------------------------------------------------------- actions
\* the store after a step, and the response when the handler returned
Store(out) ==
    /\ rooms' = out.db.rooms
    /\ members' = out.db.members
    /\ messages' = out.db.messages
    /\ nextMsgId' = out.db.nextMsgId
    /\ reactions' = out.db.reactions
    /\ crowd' = out.db.crowd
    /\ crowdOwner' = out.db.crowdOwner
    /\ extraRooms' = out.db.extraRooms

\* room: the id of the room a 201 response announces
Response(out) ==
    [op |-> out.rq.op, status |-> out.status, body |-> out.body,
     room |-> IF out.status = 201 THEN out.rq.room ELSE 0]

\* the model's bounds: a step that inserts rows needs room for them
Fits(out) ==
    /\ out.db.nextMsgId <= MaxMsgs + 1
    /\ Cardinality(out.db.rooms) <= MaxRooms

Complete(out) ==
    /\ out.rq.pc = "done"
    /\ Fits(out)
    /\ Store(out)
    /\ last' = Response(out)
    /\ UNCHANGED loginVars

CreateRequest(u, name, is_private, password) ==
    [Idle EXCEPT !.op = "create", !.user = u, !.name = name,
                 !.is_private = is_private, !.password = password]

\* POST /rooms, run alone
CreateRoom(u, name, is_private, password) ==
    /\ Complete(create_room(DB, CreateRequest(u, name, is_private, password)))
    /\ UNCHANGED req

JoinRequest(u, r, password) ==
    [Idle EXCEPT !.op = "join", !.user = u, !.room = r, !.password = password]

LeaveRequest(u, r) ==
    [Idle EXCEPT !.op = "leave", !.user = u, !.room = r]

\* POST /rooms/<room_id>/join, run alone
JoinRoom(u, r, password) ==
    /\ Complete(join_room(DB, JoinRequest(u, r, password)))
    /\ UNCHANGED req

\* POST /rooms/<room_id>/leave, run alone
LeaveRoom(u, r) ==
    /\ \E first \in FirstOther(DB, LeaveRequest(u, r)) :
           Complete(leave_room(DB, LeaveRequest(u, r), first))
    /\ UNCHANGED req

Next ==
    \/ \E u \in Creators, is_private \in BOOLEAN, password \in Passwords :
           CreateRoom(u, "Lounge", is_private, password)
    \/ \E u \in Creators : CreateRoom(u, "", FALSE, "")
    \/ \E u \in Users, r \in RoomIds, password \in Passwords : JoinRoom(u, r, password)
    \/ \E u \in Users, r \in RoomIds : LeaveRoom(u, r)

\* ------------------------------------------- requests in flight (SpecConc)
\* One step of the request in slot s: the handler returns, or goes on.
Step(s, out) ==
    /\ Fits(out)
    /\ Store(out)
    /\ IF out.rq.pc = "done"
           THEN /\ req' = [req EXCEPT ![s] = Idle]
                /\ last' = Response(out)
           ELSE /\ req' = [req EXCEPT ![s] = out.rq]
                /\ UNCHANGED last
    /\ UNCHANGED loginVars

\* A request is taken by the first free slot (the slots are interchangeable),
\* and only while the behaviour may still insert rows.
Free(s) ==
    /\ req[s].pc = "idle"
    /\ \A t \in Slots : t < s => req[t].pc /= "idle"
    /\ nextMsgId <= MaxMsgs

\* POST /rooms arrives: validation and the quota count
BeginCreate(s, u) ==
    /\ Free(s)
    /\ Step(s, create_room_check(DB, CreateRequest(u, "Lounge", FALSE, "")))

CommitCreate(s) ==
    /\ req[s].pc = "create_commit"
    /\ Step(s, create_room_commit(DB, req[s]))

\* POST /rooms/<room_id>/join arrives: room, membership, password
BeginJoin(s, u, r) ==
    /\ Free(s)
    /\ Step(s, join_room_lookup(DB, JoinRequest(u, r, "")))

CountJoin(s) ==
    /\ req[s].pc = "join_count"
    /\ Step(s, join_room_count(DB, req[s]))

CommitJoin(s) ==
    /\ req[s].pc = "join_commit"
    /\ Step(s, join_room_commit(DB, req[s]))

\* POST /rooms/<room_id>/leave arrives: the requester's membership
BeginLeave(s, u, r) ==
    /\ Free(s)
    /\ Step(s, leave_room_lookup(DB, LeaveRequest(u, r)))

CountLeave(s) ==
    /\ req[s].pc = "leave_count"
    /\ Step(s, leave_room_count(DB, req[s]))

PickLeave(s) ==
    /\ req[s].pc = "leave_pick"
    /\ \E first \in FirstOther(DB, req[s]) : Step(s, leave_room_pick(DB, req[s], first))

CommitLeave(s) ==
    /\ req[s].pc = "leave_commit"
    /\ Step(s, leave_room_commit(DB, req[s]))

NextConc ==
    \/ \E s \in Slots, u \in Creators : BeginCreate(s, u)
    \/ \E s \in Slots : CommitCreate(s)
    \/ \E s \in Slots, u \in Users, r \in RoomIds : BeginJoin(s, u, r)
    \/ \E s \in Slots : CountJoin(s)
    \/ \E s \in Slots : CommitJoin(s)
    \/ \E s \in Slots, u \in Users, r \in RoomIds : BeginLeave(s, u, r)
    \/ \E s \in Slots : CountLeave(s)
    \/ \E s \in Slots : PickLeave(s)
    \/ \E s \in Slots : CommitLeave(s)

\* room 1 with alice its owner, bob a member, and members outside Users
InitShared ==
    /\ rooms = {Room1}
    /\ members = {[id |-> 1, user_id |-> "alice", room_id |-> 1, role |-> "owner"],
                  [id |-> 2, user_id |-> "bob", room_id |-> 1, role |-> "member"]}
    /\ messages = {SystemMessage(1, "alice", "created", "alice", -1),
                   SystemMessage(1, "bob", "joined", "bob", 0)}
    /\ crowd = [r \in RoomIds |-> IF r = 1 THEN 1 ELSE 0]
    /\ extraRooms = [u \in Users |-> 0]

InitConc ==
    /\ InitCommon
    /\ login_attempts = {}
    /\ \/ InitEmpty /\ extraRooms["alice"] = MAX_ROOMS_PER_USER - 1
       \/ InitCrowded
       \/ InitShared

SpecConc == InitConc /\ [][NextConc]_vars

\* ------------------------------------------------- login throttle (SpecLogin)
\* POST /auth/login from ip_address
Login(ip_address, username, password) ==
    LET out == login(users, login_attempts, now, ip_address, username, password)
    IN  /\ Cardinality({a \in out.attempts : a.id >= 1}) <= MaxAttempts
        /\ users' = out.users
        /\ login_attempts' = out.attempts
        /\ last' = [op |-> "login", status |-> out.status, body |-> out.body, room |-> 0]
        /\ UNCHANGED <<now, roomVars>>

\* the clock advances, by a second or by the length of the window
Tick(d) ==
    /\ now + d <= LOGIN_BLOCK_TIME + ClockSlack
    /\ (now + d) % LOGIN_BLOCK_TIME <= ClockSlack
    /\ now' = now + d
    /\ UNCHANGED <<users, login_attempts, last, roomVars>>

NextLogin ==
    \/ \E ip \in IPs, username \in LoginNames, password \in LoginPasswords :
           Login(ip, username, password)
    \/ \E d \in {1, LOGIN_BLOCK_TIME} : Tick(d)

InitLogin ==
    /\ InitCommon
    /\ InitEmpty /\ extraRooms["alice"] = 0
    /\ \E k \in {0, MAX_LOGIN_ATTEMPTS - 1} : login_attempts = FailedBefore(k)

SpecLogin == InitLogin /\ [][NextLogin]_vars

\* ------------------------------------- messages and reactions (SpecMsg)
Contents == {"", "hello"}               \* content after strip()
Emojis == {"", "+1"}                    \* emoji after strip()
MessageIds == {-1, 0, 1, MaxMsgs + 1}   \* the <message_id> of a request; MaxMsgs + 1 names no row
ReplyIds == {NoMessage, -1, MaxMsgs + 1}    \* reply_to: absent, a row of room 1, no row

\* a handler that ran alone: its store and its response
Respond(op, out) ==
    /\ Store(out)
    /\ last' = [op |-> op, status |-> out.status, body |-> out.body, room |-> 0]
    /\ UNCHANGED <<req, loginVars>>

SendMessage(u, r, data, content, reply_to) ==
    Respond("send", send_message(DB, u, r, data, content, "", reply_to))

EditMessage(u, message_id, data, content) ==
    Respond("edit", edit_message(DB, u, message_id, data, content))

DeleteMessage(u, message_id) ==
    Respond("delete", delete_message(DB, u, message_id))

AddReaction(u, message_id, data, emoji) ==
    Respond("react", add_reaction(DB, u, message_id, data, emoji))

EnterRoom(u, r) == Respond("enter", enter_room(DB, u, r))

CheckMembership(u, r) == Respond("membership", check_membership(DB, u, r))

GetMessages(u, r) == Respond("messages", get_messages(DB, u, r))

RemoveReaction(u, message_id, data, emoji) ==
    Respond("unreact", remove_reaction(DB, u, message_id, data, emoji))

GetRooms(u) == Respond("rooms", get_rooms(DB, u))

GetRoom(u, r) == Respond("room", get_room(DB, u, r))

\* a request without a JSON body (data FALSE) carries no field
NextMsg ==
    \/ \E u \in Creators : CreateRoom(u, "Lounge", TRUE, "")
    \/ \E u \in Users, r \in RoomIds : JoinRoom(u, r, "")
    \/ \E u \in Users, r \in RoomIds : LeaveRoom(u, r)
    \/ \E u \in Users, r \in RoomIds, data \in BOOLEAN, content \in Contents,
          reply_to \in ReplyIds :
           /\ data \/ (content = "" /\ reply_to = NoMessage)
           /\ SendMessage(u, r, data, content, reply_to)
    \/ \E u \in Users, message_id \in MessageIds, data \in BOOLEAN, content \in Contents :
           /\ data \/ content = ""
           /\ EditMessage(u, message_id, data, content)
    \/ \E u \in Users, message_id \in MessageIds : DeleteMessage(u, message_id)
    \/ \E u \in Users, message_id \in MessageIds, data \in BOOLEAN, emoji \in Emojis :
           /\ data \/ emoji = ""
           /\ AddReaction(u, message_id, data, emoji)
    \/ \E u \in Users, r \in RoomIds : EnterRoom(u, r)
    \/ \E u \in Users, r \in RoomIds : CheckMembership(u, r)
    \/ \E u \in Users, r \in RoomIds : GetMessages(u, r)
    \/ \E u \in Users, message_id \in MessageIds, data \in BOOLEAN, emoji \in Emojis :
           /\ data \/ emoji = ""
           /\ RemoveReaction(u, message_id, data, emoji)
    \/ \E u \in Users : GetRooms(u)
    \/ \E u \in Users, r \in RoomIds : GetRoom(u, r)

InitMsg ==
    /\ InitCommon
    /\ login_attempts = {}
    /\ InitShared

SpecMsg == InitMsg /\ [][NextMsg]_vars

Spec == Init /\ [][Next]_vars
\* ======================================================================
\* Properties
\* ======================================================================
OwnerCount(db, room_id) ==
    Cardinality({m \in RoomMembers(db, room_id) : m.role = "owner"})
        + (IF db.crowdOwner[room_id] THEN 1 ELSE 0)

\* C1: right after a successful create_room (201) the room the response
\* announces exists, has exactly one membership, which is the creator's with
\* role owner, and exactly one message of type system, written by the creator.
C1_CreateRoomPost ==
    (last.op = "create" /\ last.status = 201) =>
        \E room \in rooms :
            /\ room.id = last.room
            /\ crowd[room.id] = 0
            /\ \E m \in members :
                   /\ RoomMembers(DB, room.id) = {m}
                   /\ m.user_id = room.created_by
                   /\ m.role = "owner"
            /\ \E msg \in messages :
                   /\ {x \in messages : x.room_id = room.id /\ x.message_type = "system"} = {msg}
                   /\ msg.user_id = room.created_by

\* C1 witness: a second room has just been created
C1_Witness ==
    /\ last.op = "create" /\ last.status = 201 /\ last.room = 2
    /\ \E m \in members : m.room_id = 1

\* C2: every room that has a member has exactly one member with role owner
\* (requests run one at a time).
C2_ExactlyOneOwner ==
    \A room \in rooms :
        MemberCount(DB, room.id) > 0 => OwnerCount(DB, room.id) = 1

\* C3: when a leave commits for a requester whose membership has role owner
\* in a room with another member, then afterwards exactly one member of the
\* room has role owner, that member was a member before, and the requester
\* has no membership; other requests may be in flight.
C3_OwnerLeaveTransfers ==
    [][\A s \in Slots :
          (/\ req[s].pc = "leave_commit" /\ req'[s].pc = "idle"
           /\ last'.status = 200
           /\ \E m \in Membership(DB, req[s].user, req[s].room) : m.role = "owner"
           /\ OtherCount(DB, req[s].user, req[s].room) > 0)
          => /\ OwnerCount(DB', req[s].room) = 1
             /\ \A m \in RoomMembers(DB', req[s].room) :
                    m.role = "owner" => \E b \in RoomMembers(DB, req[s].room) : b.id = m.id
             /\ Membership(DB', req[s].user, req[s].room) = {}]_vars

\* C4: there is at most one membership row per (user, room), whatever the
\* interleaving of the requests' steps.
C4_UniqueMembership ==
    \A m1 \in members : \A m2 \in members :
        (m1.user_id = m2.user_id /\ m1.room_id = m2.room_id) => m1 = m2

\* C4 witness: a join lost the race for its row (the insert was refused)
C4_Witness ==
    /\ last.op = "join" /\ last.status = 500
    /\ \E m \in members : m.role = "member" /\ m.id > 2

\* C5: a join by a user who holds a membership in the room answers 200
\* "Already a member" whatever the password and however full the room, and
\* leaves every table as it is.
C5_JoinAgainIdempotent ==
    \A u \in Users : \A r \in RoomIds : \A password \in Passwords :
        Membership(DB, u, r) /= {} =>
            LET out == join_room(DB, JoinRequest(u, r, password))
            IN  /\ out.status = 200
                /\ out.body = "Already a member"
                /\ out.db = DB

\* C5 witness: such a join was answered while a member sits in a full room
\* and in a room whose password is set
C5_Witness ==
    /\ last.body = "Already a member"
    /\ \E m \in members : \E room \in rooms :
           /\ room.id = m.room_id /\ m.role = "member"
           /\ \/ MemberCount(DB, room.id) >= room.max_members
              \/ room.password_hash /= NoHash

\* C6: a join by a non-member with a password that is not the room's fails
\* with 401 and leaves memberships and messages as they are; a room without
\* a password, private or not, never answers 401 and admits the non-member
\* when it is not full.
C6_JoinPassword ==
    \A u \in Users : \A room \in rooms : \A password \in Passwords :
        Membership(DB, u, room.id) = {} =>
            LET out == join_room(DB, JoinRequest(u, room.id, password))
            IN  /\ (room.password_hash /= NoHash
                        /\ room.password_hash /= generate_password_hash(password))
                   => /\ out.status = 401
                      /\ out.db.members = members
                      /\ out.db.messages = messages
                /\ room.password_hash = NoHash
                   => /\ out.status /= 401
                      /\ MemberCount(DB, room.id) < room.max_members
                         => /\ out.status = 200
                            /\ \E m \in out.db.members :
                                   /\ m.user_id = u /\ m.room_id = room.id
                                   /\ m.role = "member"

\* C6 witness: a join was refused with 401 while a private room without a
\* password has admitted a user who did not create it
C6_Witness ==
    /\ last.op = "join" /\ last.status = 401
    /\ \E room \in rooms : \E m \in members :
           /\ room.is_private /\ room.password_hash = NoHash
           /\ m.room_id = room.id /\ m.role = "member"

\* C7: no room ever has more memberships than its max_members, whatever the
\* interleaving of the requests' steps.
C7_CapacityNeverExceeded ==
    \A room \in rooms : MemberCount(DB, room.id) <= room.max_members

\* C8: no user is created_by of more than MAX_ROOMS_PER_USER rooms, whatever
\* the interleaving of the requests' steps.
C8_QuotaNeverExceeded ==
    \A u \in Users : RoomsCreatedBy(DB, u) <= MAX_ROOMS_PER_USER

\* the failed attempts of (ip, username) recorded in the last LOGIN_BLOCK_TIME seconds
RecentFailures(ip_address, username) ==
    {a \in login_attempts :
        /\ a.ip_address = ip_address /\ a.username = username
        /\ ~a.successful
        /\ now - a.attempted_at <= LOGIN_BLOCK_TIME}

\* the credential check: an account has this username or email, and this password
CredentialsOk(username, password) ==
    \E u \in users :
        /\ u.username = username \/ u.email = username
        /\ u.password_hash = generate_password_hash(password)

\* C9: with MAX_LOGIN_ATTEMPTS or more failures of the pair in the window a
\* login is answered 429 whatever its password; with fewer it reaches the
\* credential check (200 or 401).
C9_Throttle ==
    \A ip \in IPs : \A username \in LoginNames \ {""} : \A password \in LoginPasswords :
        LET out == login(users, login_attempts, now, ip, username, password)
        IN  IF Cardinality(RecentFailures(ip, username)) >= MAX_LOGIN_ATTEMPTS
                THEN out.status = 429
            ELSE out.status = (IF CredentialsOk(username, password) THEN 200 ELSE 401)

\* C9 witness: a pair with MAX_LOGIN_ATTEMPTS recorded failures, fewer of
\* them in the window, has had its credentials checked again just now
C9_Witness ==
    \E ip \in IPs : \E username \in LoginNames :
        /\ Cardinality({a \in login_attempts : a.ip_address = ip
                            /\ a.username = username /\ ~a.successful
                            /\ a.attempted_at <= ClockSlack}) >= MAX_LOGIN_ATTEMPTS
        /\ Cardinality(RecentFailures(ip, username)) < MAX_LOGIN_ATTEMPTS
        /\ \E a \in login_attempts :
               /\ a.ip_address = ip /\ a.username = username
               /\ a.attempted_at = now /\ now > LOGIN_BLOCK_TIME
        /\ last.status \in {200, 401}

\* a login answered 429 appends no row; one that passes the throttle appends
\* exactly one, with the pair, the clock and the credential check's outcome
C10_OneRow ==
    \A ip \in IPs : \A username \in LoginNames \ {""} : \A password \in LoginPasswords :
        LET out == login(users, login_attempts, now, ip, username, password)
        IN  IF ~check_login_attempts(login_attempts, now, ip, username)
                THEN out.attempts = login_attempts
            ELSE \E a \in out.attempts :
                    /\ a \notin login_attempts
                    /\ out.attempts = login_attempts \cup {a}
                    /\ a.ip_address = ip /\ a.username = username
                    /\ a.attempted_at = now
                    /\ a.successful = CredentialsOk(username, password)

\* C10: the rows a login appends (C10_OneRow), and no step updates or
\* deletes a login_attempts row.
C10_AttemptsLog ==
    /\ []C10_OneRow
    /\ [][login_attempts \subseteq login_attempts']_vars

\* C10 witness: a blocked login after the behaviour's own failed attempt
C10_Witness ==
    /\ last.op = "login" /\ last.status = 429
    /\ \E a \in login_attempts : a.id >= 1 /\ ~a.successful

\* the reactions of (message, user, emoji)
ReactionsOf(db, message_id, user_id, emoji) ==
    {r \in db.reactions :
        r.message_id = message_id /\ r.user_id = user_id /\ r.emoji = emoji}

IsMember(db, user_id, room_id) == Membership(db, user_id, room_id) /= {}

\* C11: for a member of the message's room, add_reaction of a triple that
\* exists answers 409 and leaves the reactions as they are, add_reaction of
\* a triple that does not exist (another emoji) answers 200 and inserts it;
\* and no triple has two rows.
C11_ReactionUnique ==
    /\ \A r1 \in reactions : \A r2 \in reactions :
           (r1.message_id = r2.message_id /\ r1.user_id = r2.user_id
                /\ r1.emoji = r2.emoji) => r1 = r2
    /\ \A u \in Users : \A m \in messages : \A emoji \in Emojis \ {""} :
           IsMember(DB, u, m.room_id) =>
               LET out == add_reaction(DB, u, m.id, TRUE, emoji)
               IN  IF ReactionsOf(DB, m.id, u, emoji) /= {}
                       THEN out.status = 409 /\ out.db.reactions = reactions
                   ELSE /\ out.status = 200
                        /\ Cardinality(ReactionsOf(out.db, m.id, u, emoji)) = 1

\* C12: a delete requested by the message's author leaves no row of the
\* message and no reaction with its id; a delete answered 403 or 404 leaves
\* messages and reactions as they are.
C12_DeleteRemovesReactions ==
    \A u \in Users : \A message_id \in MessageIds :
        LET out == delete_message(DB, u, message_id)
        IN  /\ (\E m \in messages : m.id = message_id /\ m.user_id = u)
               => /\ MessageGet(out.db, message_id) = {}
                  /\ \A r \in out.db.reactions : r.message_id /= message_id
            /\ out.status \in {403, 404}
               => out.db.messages = messages /\ out.db.reactions = reactions

\* C13: every reply_to that is set names a message of the same room, and a
\* send by a member with content and a reply_to that names no message, or a
\* message of another room, answers 400 and stores nothing.
C13_ReplyToSameRoom ==
    /\ \A m \in messages :
           m.reply_to /= NoMessage =>
               \E parent \in messages : parent.id = m.reply_to /\ parent.room_id = m.room_id
    /\ \A u \in Users : \A r \in RoomIds : \A reply_to \in MessageIds \ {NoMessage} :
           (/\ IsMember(DB, u, r)
            /\ ~\E parent \in messages : parent.id = reply_to /\ parent.room_id = r)
           => LET out == send_message(DB, u, r, TRUE, "hello", "", reply_to)
              IN  out.status = 400 /\ out.db = DB

\* C14: delete of an existing message answers 200 exactly when the requester
\* is its author or has role admin or owner in the message's room; otherwise
\* it answers 403 and leaves messages and reactions as they are.
C14_DeletePermission ==
    \A u \in Users : \A m \in messages :
        LET out == delete_message(DB, u, m.id)
            allowed == \/ m.user_id = u
                       \/ \E row \in Membership(DB, u, m.room_id) :
                              row.role \in {"admin", "owner"}
        IN  IF allowed THEN out.status = 200
            ELSE /\ out.status = 403
                 /\ out.db.messages = messages /\ out.db.reactions = reactions

\* C15: edit of an existing message answers 403 for anyone but the author
\* (the room's owner too), 400 for the author with empty content, 200
\* otherwise; a failure leaves the messages as they are, a success changes
\* the content and sets is_edited, and nothing else.
C15_EditAuthorOnly ==
    \A u \in Users : \A m \in messages : \A content \in Contents :
        LET out == edit_message(DB, u, m.id, TRUE, content)
        IN  IF m.user_id /= u
                THEN out.status = 403 /\ out.db = DB
            ELSE IF content = ""
                THEN out.status = 400 /\ out.db = DB
            ELSE /\ out.status = 200
                 /\ out.db = [DB EXCEPT !.messages = (@ \ {m}) \cup
                                 {[m EXCEPT !.content = content, !.is_edited = TRUE]}]

\* C16: of two add_reaction requests of a member for the same (message,
\* user, emoji), run one after the other, exactly one fails, and afterwards
\* the triple has exactly one row.
C16_OneOfTwoFails ==
    \A u \in Users : \A m \in messages : \A emoji \in Emojis \ {""} :
        (IsMember(DB, u, m.room_id) /\ ReactionsOf(DB, m.id, u, emoji) = {}) =>
            LET first == add_reaction(DB, u, m.id, TRUE, emoji)
                second == add_reaction(first.db, u, m.id, TRUE, emoji)
            IN  /\ (first.status >= 400) /= (second.status >= 400)
                /\ Cardinality(ReactionsOf(second.db, m.id, u, emoji)) = 1

\* C17: a room appears in the same step as its creator's owner membership
\* and its creation message; a role becomes owner only in a step of a leave
\* after which the leaver's membership is not there, and with the new-owner
\* message; a request that fails leaves the store as it was.  Requests are in flight
\* side by side.
C17_AllOrNothing ==
    [][/\ \A room \in rooms' \ rooms :
              /\ \E m \in members' \ members :
                     /\ m.room_id = room.id /\ m.user_id = room.created_by
                     /\ m.role = "owner"
              /\ \E msg \in messages' \ messages :
                     /\ msg.room_id = room.id /\ msg.message_type = "system"
                     /\ msg.content = <<"created", room.created_by>>
       /\ \A r \in RoomIds :
              (\/ crowdOwner'[r] /\ ~crowdOwner[r]
               \/ \E m1 \in members : \E m2 \in members' :
                      /\ m1.id = m2.id /\ m2.room_id = r
                      /\ m1.role /= "owner" /\ m2.role = "owner")
              => \E s \in Slots :
                     /\ req[s].op = "leave" /\ req[s].room = r
                     /\ req[s].row \notin {m.id : m \in members'}
                     /\ \E msg \in messages' \ messages :
                            msg.room_id = r /\ msg.content[1] = "newowner"
       /\ last'.status >= 400
              => /\ rooms' = rooms /\ members' = members /\ messages' = messages
                 /\ crowd' = crowd /\ crowdOwner' = crowdOwner]_vars

\* C17 witness: a leave failed at its commit (its new owner's row was gone)
\* and the owner is still the owner
C17_Witness ==
    /\ last.op = "leave" /\ last.status = 500
    /\ \E m \in members : m.user_id = "alice" /\ m.role = "owner"

\* C18: leave without a membership answers 404 and changes nothing; every
\* other leave answers 200, removes the leaver's row and no other, and
\* appends the leaver's "left" message, after one "newowner" message
\* exactly when the leaver was owner and the room had another member.
C18_LeaveEffects ==
    \A u \in Users : \A r \in RoomIds :
        \A first \in FirstOther(DB, LeaveRequest(u, r)) :
            LET out == leave_room(DB, LeaveRequest(u, r), first)
                new == out.db.messages \ messages
            IN  IF ~IsMember(DB, u, r)
                    THEN out.status = 404 /\ out.db = DB
                ELSE LET row == CHOOSE m \in Membership(DB, u, r) : TRUE
                         transfer == row.role = "owner" /\ MemberCount(DB, r) > 1
                     IN  /\ out.status = 200
                         /\ {m.id : m \in out.db.members} = {m.id : m \in members} \ {row.id}
                         /\ out.db.crowd = crowd /\ out.db.rooms = rooms
                         /\ messages \subseteq out.db.messages
                         /\ Cardinality(new) = (IF transfer THEN 2 ELSE 1)
                         /\ \E left \in new :
                                /\ left.room_id = r /\ left.user_id = u
                                /\ left.message_type = "system"
                                /\ left.content = <<"left", u>>
                                /\ \A msg \in new \ {left} :
                                       /\ msg.id < left.id /\ msg.room_id = r
                                       /\ msg.content[1] = "newowner"

\* C18 witness: an owner has left a room that had other members
C18_Witness ==
    /\ last.op = "leave" /\ last.status = 200
    /\ \E msg \in messages : \E left \in messages :
           /\ msg.content[1] = "newowner" /\ left.content[1] = "left"
           /\ left.id = msg.id + 1

\* a leave of the owner who is the room's only member: 200, no new owner,
\* no member left, the room and its messages stay
C19_SoleOwnerLeaves ==
    \A u \in Users : \A room \in rooms :
        \A first \in FirstOther(DB, LeaveRequest(u, room.id)) :
            ((\E m \in Membership(DB, u, room.id) : m.role = "owner")
                 /\ MemberCount(DB, room.id) = 1)
            => LET out == leave_room(DB, LeaveRequest(u, room.id), first)
               IN  /\ out.status = 200
                   /\ MemberCount(out.db, room.id) = 0
                   /\ OwnerCount(out.db, room.id) = 0
                   /\ room \in out.db.rooms
                   /\ messages \subseteq out.db.messages
                   /\ \A msg \in out.db.messages \ messages : msg.content[1] /= "newowner"

\* C19: the sole owner's leave (C19_SoleOwnerLeaves), and no step of any
\* operation removes a room.
C19_RoomsStay ==
    /\ []C19_SoleOwnerLeaves
    /\ [][rooms \subseteq rooms']_vars

\* C19 witness: a room without members, with its messages, after a leave
C19_Witness ==
    /\ last.op = "leave" /\ last.status = 200
    /\ \E room \in rooms :
           /\ MemberCount(DB, room.id) = 0
           /\ \E msg \in messages : msg.room_id = room.id /\ msg.content[1] = "left"

\* C20: enter answers 404 without the room, 403 without the requester's
\* membership, 200 otherwise; check_membership answers the requester's role,
\* or none; both leave the store as it is.
C20_ReadsOnly ==
    \A u \in Users : \A r \in RoomIds :
        LET out == enter_room(DB, u, r)
            seen == check_membership(DB, u, r)
        IN  /\ out.db = DB
            /\ out.status = (IF ~\E room \in rooms : room.id = r THEN 404
                             ELSE IF ~\E m \in members : m.user_id = u /\ m.room_id = r
                                 THEN 403
                             ELSE 200)
            /\ seen.db = DB
            /\ seen.status = 200
            /\ \/ \E m \in members : m.user_id = u /\ m.room_id = r /\ seen.body = m.role
               \/ /\ ~\E m \in members : m.user_id = u /\ m.room_id = r
                  /\ seen.body = "None"

\* C20 witness: an enter was refused for want of a membership
C20_Witness ==
    /\ last.op = "enter" /\ last.status = 403
    /\ \E m \in members : m.role = "member"

\* C21: get_room answers 404 for a room that does not exist and 403 for a
\* private room in which the requester has no membership; otherwise it
\* answers 200 with one entry per membership of the room, each with its user
\* and role, and is_member telling whether the requester has a membership;
\* it leaves the store as it is.
C21_GetRoom ==
    \A u \in Users : \A r \in RoomIds :
        LET out == get_room(DB, u, r)
            mine == {m \in members : m.user_id = u /\ m.room_id = r}
            rows == {m \in members : m.room_id = r}
        IN  /\ out.db = DB
            /\ (~\E room \in rooms : room.id = r) => out.status = 404
            /\ \A room \in rooms :
                 room.id = r =>
                     IF room.is_private /\ mine = {} THEN out.status = 403
                     ELSE /\ out.status = 200
                          /\ BagCardinality(out.rows) = Cardinality(rows) + crowd[r]
                          /\ \A m \in rows :
                                 CopiesIn([user |-> m.user_id, role |-> m.role], out.rows) = 1
                          /\ out.is_member = (mine /= {})

\* C21 witness: a private room with a member was refused to someone else
C21_Witness ==
    /\ last.op = "room" /\ last.status = 403
    /\ \E room \in rooms :
           /\ room.is_private
           /\ \E m \in members : m.room_id = room.id
           /\ \E u \in Users : ~IsMember(DB, u, room.id)

\* C22: remove_reaction of a triple (message, requester, emoji) that has no
\* row answers 404 and leaves the store as it is; otherwise it answers 200
\* and removes the requester's row of that triple and no other row, whether
\* or not the requester is a member of the room.
C22_RemoveOwnReaction ==
    \A u \in Users : \A message_id \in MessageIds : \A emoji \in Emojis \ {""} :
        LET out == remove_reaction(DB, u, message_id, TRUE, emoji)
        IN  IF ReactionsOf(DB, message_id, u, emoji) = {}
                THEN out.status = 404 /\ out.db = DB
            ELSE /\ out.status = 200
                 /\ out.db.reactions = reactions \ ReactionsOf(DB, message_id, u, emoji)

\* C23: a delete requested by the message's author removes the message and
\* every message that replies to it, directly or through other replies,
\* whoever wrote them, and leaves every other message as it is.
C23_DeleteCascade ==
    \A message \in messages :
        LET out == delete_message(DB, message.user_id, message.id)
            subtree == Cascade(DB, {message.id}, Cardinality(messages))
        IN  /\ out.status = 200
            /\ out.db.messages = {m \in messages : m.id \notin subtree}

\* C24: get_rooms lists a room exactly when it is not private or the
\* requester has a membership in it, and lists no room twice.
C24_ListRooms ==
    \A u \in Users :
        LET out == get_rooms(DB, u)
        IN  /\ out.status = 200 /\ out.db = DB
            /\ \A room \in BagToSet(out.rows) : CopiesIn(room, out.rows) = 1
            /\ BagToSet(out.rows) =
                   {room \in rooms :
                       \/ ~room.is_private
                       \/ \E m \in members : m.user_id = u /\ m.room_id = room.id}

\* C24 witness: the rooms were listed while a member of a public room was
\* not a member of some private room that has members
C24_Witness ==
    /\ last.op = "rooms" /\ last.status = 200
    /\ \E u \in Users :
           /\ \E room \in rooms : ~room.is_private /\ IsMember(DB, u, room.id)
           /\ \E room \in rooms :
                  /\ room.is_private /\ ~IsMember(DB, u, room.id)
                  /\ \E m \in members : m.room_id = room.id

\* C25: for a user without a membership in an existing room, enter,
\* get_messages, send_message and add_reaction on a message of the room all
\* answer 403 and leave the store as it is.
C25_NonMemberForbidden ==
    \A u \in Users : \A room \in rooms :
        ~IsMember(DB, u, room.id) =>
            /\ enter_room(DB, u, room.id) = Answer(DB, 403, "Not a member of this room")
            /\ get_messages(DB, u, room.id).status = 403
            /\ get_messages(DB, u, room.id).db = DB
            /\ send_message(DB, u, room.id, TRUE, "hello", "", NoMessage).status = 403
            /\ send_message(DB, u, room.id, TRUE, "hello", "", NoMessage).db = DB
            /\ \A m \in messages :
                   m.room_id = room.id =>
                       /\ add_reaction(DB, u, m.id, TRUE, "+1").status = 403
                       /\ add_reaction(DB, u, m.id, TRUE, "+1").db = DB

\* C26: whether a login of (ip, username) is let through is decided by the
\* failed rows with that ip and that username alone: the decision is the
\* same with every other row removed, and a login is answered 429 only when
\* MAX_LOGIN_ATTEMPTS failures carry its own ip and its own username.
C26_PairOnly ==
    \A ip \in IPs : \A username \in LoginNames \ {""} :
        LET own == {a \in login_attempts :
                       a.ip_address = ip /\ a.username = username /\ ~a.successful}
        IN  /\ check_login_attempts(login_attempts, now, ip, username)
                   = check_login_attempts(own, now, ip, username)
            /\ \A password \in LoginPasswords :
                   login(users, login_attempts, now, ip, username, password).status = 429
                       => Cardinality(own) >= MAX_LOGIN_ATTEMPTS

\* C26 witness: while a pair is blocked, a login with another ip or with
\* the account's other identifier has just succeeded
C26_Witness ==
    /\ last.op = "login" /\ last.status = 200
    /\ \E ip \in IPs : \E username \in LoginNames :
           /\ Cardinality(RecentFailures(ip, username)) >= MAX_LOGIN_ATTEMPTS
           /\ \E a \in login_attempts :
                  /\ a.successful /\ a.attempted_at = now
                  /\ a.ip_address /= ip \/ a.username /= username
                  /\ \E u \in users : a.username \in {u.username, u.email}

\* C30: the successful rows do not count: the throttle decides as it would
\* without them, a login answered 200 leaves the failed rows of its pair as
\* they are, and a pair with MAX_LOGIN_ATTEMPTS failures in the window is
\* answered 429 also when it has a successful row in the window.
C30_SuccessKeepsFailures ==
    \A ip \in IPs : \A username \in LoginNames \ {""} : \A password \in LoginPasswords :
        LET out == login(users, login_attempts, now, ip, username, password)
            failed(attempts) == {a \in attempts :
                a.ip_address = ip /\ a.username = username /\ ~a.successful}
        IN  /\ check_login_attempts(login_attempts, now, ip, username)
                   = check_login_attempts({a \in login_attempts : ~a.successful},
                                          now, ip, username)
            /\ out.status = 200 => failed(out.attempts) = failed(login_attempts)
            /\ Cardinality(RecentFailures(ip, username)) >= MAX_LOGIN_ATTEMPTS
                   => out.status = 429

\* C30 witness: a login was blocked for a pair that has a successful row
\* and a later failed one, with MAX_LOGIN_ATTEMPTS failures in the window
C30_Witness ==
    /\ last.op = "login" /\ last.status = 429
    /\ \E ip \in IPs : \E username \in LoginNames :
           /\ Cardinality(RecentFailures(ip, username)) = MAX_LOGIN_ATTEMPTS
           /\ \E s \in login_attempts : \E f \in login_attempts :
                  /\ s.ip_address = ip /\ s.username = username /\ s.successful
                  /\ f.ip_address = ip /\ f.username = username /\ ~f.successful
                  /\ f.id > s.id
                  /\ now - s.attempted_at <= LOGIN_BLOCK_TIME

\* C27: with the requests run one at a time, no room ever has two or more
\* members with role owner.
C27_AtMostOneOwner ==
    \A room \in rooms : OwnerCount(DB, room.id) <= 1

\* C27 witness: a room whose owner is not its creator, with a second member
C27_Witness ==
    \E room \in rooms :
        /\ OwnerCount(DB, room.id) = 1
        /\ MemberCount(DB, room.id) >= 2
        /\ \A m \in Membership(DB, room.created_by, room.id) : m.role = "member"

\* C28: every membership has role member or owner; a row that a step
\* inserts has role member, or role owner when it is the creator's row of a
\* room created in the same step; and the role of a row changes only from
\* member to owner, in the commit of a leave whose requester was read as
\* owner and whose new_owner is that row.
C28_RolesAssigned ==
    /\ [](\A m \in members : m.role \in {"member", "owner"})
    /\ [][/\ \A m2 \in members' :
                (\A m1 \in members : m1.id /= m2.id) =>
                    \/ m2.role = "member"
                    \/ /\ m2.role = "owner"
                       /\ \E room \in rooms' \ rooms :
                              room.id = m2.room_id /\ room.created_by = m2.user_id
          /\ \A m1 \in members : \A m2 \in members' :
                (m1.id = m2.id /\ m1.role /= m2.role) =>
                    /\ m1.role = "member" /\ m2.role = "owner"
                    /\ \E s \in Slots :
                           /\ req[s].pc = "leave_commit" /\ req'[s].pc = "idle"
                           /\ req[s].role = "owner" /\ req[s].pick = m1.id
          /\ \A r \in RoomIds :
                crowdOwner'[r] /= crowdOwner[r] =>
                    /\ crowdOwner'[r]
                    /\ \E s \in Slots :
                           /\ req[s].pc = "leave_commit" /\ req'[s].pc = "idle"
                           /\ req[s].role = "owner" /\ req[s].room = r
                           /\ req[s].pick = CrowdRow]_vars

\* C28 witness: the creator of a room, no longer its owner, has just joined
\* it again, and the room has an owner
C28_Witness ==
    /\ last.op = "join" /\ last.status = 200
    /\ \E room \in rooms :
           /\ OwnerCount(DB, room.id) >= 1
           /\ \E m \in Membership(DB, room.created_by, room.id) : m.role = "member"
====
